---- MODULE Spec2Model ----
(***************************************************************************)
(* A model of the editor-integration layer of vscode-go: the package       *)
(* catalog cache (goImport.ts), the completion provider (goSuggest.ts),    *)
(* the outline provider (goOutline.ts) and the rename provider             *)
(* (goRename.ts).                                                          *)
(*                                                                         *)
(* Strings are sequences of one-character strings; Code gives the UTF-16   *)
(* code unit of a character, which is what JavaScript compares.  Indices   *)
(* of the string helpers are 0-based, as in JavaScript.                    *)
(***************************************************************************)
EXTENDS Integers, Sequences, FiniteSets, TLC

VARIABLES
    now,                          \* Date.now(), in ms
    env,                          \* the process environment and the active editor
    pkgsCache,                    \* goImport.ts: pkgsCache
    timeForLastPkgsCacheRefresh,  \* goImport.ts: timeForLastPkgsCacheRefresh, undefined or [ms]
    pkgsCacheStoredAt,            \* history: the time pkgsCache was assigned
    pkgsCacheSource,              \* history: what pkgsCache was computed from
    calls,                        \* the listPackages calls in flight
    lastReturn,                   \* history: the last settlement of a listPackages call
    prompts,                      \* the tools promptForMissingTool was called for
    gocodeConfigurationComplete,  \* goSuggest.ts: the provider's flag
    pkgsList,                     \* goSuggest.ts: the provider's pkgsList
    reqs,                         \* the completion requests
    outline,                      \* the document-symbol requests
    renames,                      \* the rename requests
    addImports                    \* the go.import.add commands

pkgVars == <<pkgsCache, timeForLastPkgsCacheRefresh, pkgsCacheStoredAt, pkgsCacheSource,
             calls, lastReturn>>
suggestVars == <<gocodeConfigurationComplete, pkgsList, reqs>>
vars == <<now, env, pkgVars, prompts, suggestVars, outline, renames, addImports>>

\* null and undefined; every value that may be one of them is a record
Null == [null |-> TRUE]
Undefined == [undefined |-> TRUE]

----------------------------------------------------------------------------
(* Bounds *)

MaxTime == 1              \* the clock runs from 0 to MaxTime
MaxInFlight == 1          \* refreshes in flight at once that outside callers started
MaxRequests == 2          \* completion requests
MaxSymbolRequests == 2    \* document-symbol requests
MaxRenames == 2           \* rename requests
MaxCompletions == 1       \* completion requests, when each is looked at alone
MaxAddImports == 2        \* go.import.add commands

----------------------------------------------------------------------------
(* JavaScript strings *)

Code(c) ==
    CASE c = "\n" -> 10 [] c = " " -> 32 [] c = "\"" -> 34 [] c = "." -> 46
      [] c = "/" -> 47 [] c = "1" -> 49 [] c = "2" -> 50 [] c = ":" -> 58
      [] c = "C" -> 67 [] c = "G" -> 71 [] c = "\\" -> 92
      [] c = "a" -> 97 [] c = "b" -> 98 [] c = "c" -> 99 [] c = "d" -> 100
      [] c = "e" -> 101 [] c = "f" -> 102 [] c = "g" -> 103 [] c = "h" -> 104
      [] c = "i" -> 105 [] c = "m" -> 109 [] c = "n" -> 110 [] c = "o" -> 111
      [] c = "p" -> 112 [] c = "q" -> 113 [] c = "r" -> 114 [] c = "s" -> 115
      [] c = "t" -> 116 [] c = "u" -> 117 [] c = "v" -> 118 [] c = "x" -> 120
      [] c = "y" -> 121 [] c = "z" -> 122

\* s < t for JavaScript strings: by code unit, a proper prefix first
RECURSIVE StrLess(_, _)
StrLess(s, t) ==
    IF t = <<>> THEN FALSE
    ELSE IF s = <<>> THEN TRUE
    ELSE IF Code(Head(s)) < Code(Head(t)) THEN TRUE
    ELSE IF Code(Head(s)) > Code(Head(t)) THEN FALSE
    ELSE StrLess(Tail(s), Tail(t))

\* s.substring(a, b) and s.substring(a)
Substring(s, a, b) == SubSeq(s, a + 1, b)
SubstringFrom(s, a) == SubSeq(s, a + 1, Len(s))

\* s.indexOf(sub): the first index, or -1
IndexOf(s, sub) ==
    LET hits == {i \in 0..(Len(s) - Len(sub)) : Substring(s, i, i + Len(sub)) = sub}
    IN  IF hits = {} THEN -1 ELSE CHOOSE i \in hits : \A j \in hits : i <= j

\* s.lastIndexOf(sub): the last index, or -1
LastIndexOf(s, sub) ==
    LET hits == {i \in 0..(Len(s) - Len(sub)) : Substring(s, i, i + Len(sub)) = sub}
    IN  IF hits = {} THEN -1 ELSE CHOOSE i \in hits : \A j \in hits : i >= j

StartsWith(s, p) == Len(p) <= Len(s) /\ SubSeq(s, 1, Len(p)) = p

\* s.split(c) for a one-character separator
RECURSIVE Split(_, _)
Split(s, c) ==
    LET i == IndexOf(s, <<c>>)
    IN  IF i = -1 THEN <<s>>
        ELSE <<Substring(s, 0, i)>> \o Split(SubstringFrom(s, i + 1), c)

\* a.indexOf(x) > -1 for an array
Includes(a, x) == \E i \in 1..Len(a) : a[i] = x

\* a.filter(element => excluded.indexOf(element) === -1)
RECURSIVE Without(_, _)
Without(a, excluded) ==
    IF a = <<>> THEN <<>>
    ELSE (IF Includes(excluded, Head(a)) THEN <<>> ELSE <<Head(a)>>)
         \o Without(Tail(a), excluded)

\* Array.prototype.sort() without a comparator: ascending by code unit
RECURSIVE SortInsert(_, _)
SortInsert(x, sorted) ==
    IF sorted = <<>> THEN <<x>>
    ELSE IF StrLess(x, Head(sorted)) THEN <<x>> \o sorted
    ELSE <<Head(sorted)>> \o SortInsert(x, Tail(sorted))

RECURSIVE Sort(_)
Sort(a) == IF a = <<>> THEN <<>> ELSE SortInsert(Head(a), Sort(Tail(a)))

----------------------------------------------------------------------------
(* node's path module, for the separators of the platform *)

PathSep(win32) == IF win32 THEN "\\" ELSE "/"
PathDelimiter(win32) == IF win32 THEN ";" ELSE ":"
IsSep(c, win32) == c = "/" \/ (win32 /\ c = "\\")

\* path.normalize, for paths without "." and ".." segments: runs of separators
\* collapse into one separator of the platform
RECURSIVE PathNormalize(_, _)
PathNormalize(p, win32) ==
    IF p = <<>> THEN <<>>
    ELSE IF IsSep(Head(p), win32)
         THEN IF Len(p) > 1 /\ IsSep(p[2], win32)
              THEN PathNormalize(Tail(p), win32)
              ELSE <<PathSep(win32)>> \o PathNormalize(Tail(p), win32)
         ELSE <<Head(p)>> \o PathNormalize(Tail(p), win32)

\* path.join(a, b): the non-empty ones joined by the separator, normalized
PathJoin(a, b, win32) ==
    IF a = <<>> THEN PathNormalize(b, win32)
    ELSE IF b = <<>> THEN PathNormalize(a, win32)
    ELSE PathNormalize(a \o <<PathSep(win32)>> \o b, win32)

\* path.dirname(p), for a path that does not end in a separator
PathDirname(p, win32) ==
    LET seps == {i \in 1..Len(p) : IsSep(p[i], win32)}
        last == CHOOSE i \in seps : \A j \in seps : i >= j
    IN  IF seps = {} THEN <<".">>
        ELSE IF last = 1 THEN <<p[1]>>
        ELSE SubSeq(p, 1, last - 1)

\* s.substr(0, 1).toUpperCase() + s.substr(1)
UpperChar(c) == CASE c = "c" -> "C" [] c = "g" -> "G" [] OTHER -> c
UpperFirst(s) == IF s = <<>> THEN s ELSE <<UpperChar(s[1])>> \o Tail(s)

----------------------------------------------------------------------------
(* The inputs: environments, tool outputs, documents *)

\* The process and the editor: the active document's file name (editor says
\* whether vscode.window.activeTextEditor is set), $GOPATH, process.platform and
\* what isVendorSupported() resolves to.
Environment(editor, fileName, gopath, vendorSupport) ==
    [editor |-> editor, fileName |-> fileName, gopath |-> gopath, win32 |-> FALSE,
     vendorSupport |-> vendorSupport]

\* /g/src/x/f.go in the one workspace /g
FileInWorkspace == <<"/","g","/","s","r","c","/","x","/","f",".","g","o">>
OneWorkspace == <<"/","g">>
\* /g/src/x/src/x/f.go in the nested workspaces /g and /g/src/x
FileInNestedWorkspace ==
    <<"/","g","/","s","r","c","/","x","/","s","r","c","/","x","/","f",".","g","o">>
NestedWorkspaces == <<"/","g",":","/","g","/","s","r","c","/","x">>

Environments ==
    { Environment(TRUE, FileInWorkspace, OneWorkspace, TRUE),
      Environment(TRUE, FileInWorkspace, OneWorkspace, FALSE),
      Environment(TRUE, FileInNestedWorkspace, NestedWorkspaces, TRUE),
      Environment(FALSE, FileInWorkspace, OneWorkspace, TRUE) }

\* What gopkgs may print
GoPkgsStdout ==
    { <<>>,
      <<"b","\n","a","\n","a","\n">>,
      <<"x","/","v","e","n","d","o","r","/","q","\n","q">> }

ExecErrors == {"none", "ENOENT", "other"}

----------------------------------------------------------------------------
(* goImport.ts: listPackages *)

pkgsCacheRefreshInterval == 1

magicVendorString == <<"/","v","e","n","d","o","r","/">>

\* The callback of execFile(gopkgs): the lines of stdout, without the empty
\* entry a final newline leaves.
GoPkgsLines(stdout) ==
    LET lines == Split(stdout, "\n")
    IN  IF lines[Len(lines)] = <<>> THEN SubSeq(lines, 1, Len(lines) - 1) ELSE lines

\* The branch without vendor support, its sort() left out
NoVendorPkgsUnsorted(pkgs, importedPkgs) ==
    IF Len(importedPkgs) > 0 THEN Without(pkgs, importedPkgs) ELSE pkgs

\* The branch without vendor support
NoVendorPkgs(pkgs, importedPkgs) ==
    Sort(IF Len(importedPkgs) > 0 THEN Without(pkgs, importedPkgs) ELSE pkgs)

CurrentFileDirPath(e) ==
    LET dir == PathDirname(e.fileName, e.win32)
    IN  IF e.win32 THEN UpperFirst(dir) ELSE dir

\* The loop over workspaces[i], i >= 1 (k is i + 1)
RECURSIVE WorkspaceLoop(_, _, _, _)
WorkspaceLoop(workspaces, k, currentWorkspace, e) ==
    IF k > Len(workspaces) THEN currentWorkspace
    ELSE LET possibleCurrentWorkspace == PathJoin(workspaces[k], <<"s","r","c">>, e.win32)
         IN  WorkspaceLoop(workspaces, k + 1,
                 IF /\ StartsWith(CurrentFileDirPath(e), possibleCurrentWorkspace)
                    /\ Len(possibleCurrentWorkspace) > Len(currentWorkspace)
                 THEN possibleCurrentWorkspace
                 ELSE currentWorkspace,
                 e)

CurrentWorkspace(e) ==
    LET workspaces == Split(e.gopath, PathDelimiter(e.win32))
    IN  WorkspaceLoop(workspaces, 2, PathJoin(workspaces[1], <<"s","r","c">>, e.win32), e)

\* What pkgs.forEach adds to pkgSet for pkg
VendorEntry(pkg, e) ==
    LET vendorIndex == IndexOf(pkg, magicVendorString)
        rootProjectForVendorPkg ==
            PathJoin(CurrentWorkspace(e), Substring(pkg, 0, vendorIndex), e.win32)
        relativePathForVendorPkg ==
            SubstringFrom(pkg, vendorIndex + Len(magicVendorString))
    IN  IF /\ vendorIndex > 0
           /\ relativePathForVendorPkg # <<>>
           /\ StartsWith(CurrentFileDirPath(e), rootProjectForVendorPkg)
        THEN relativePathForVendorPkg
        ELSE pkg

\* Set.prototype.add on a set kept in insertion order
SetAdd(pkgSet, x) == IF Includes(pkgSet, x) THEN pkgSet ELSE Append(pkgSet, x)

RECURSIVE PkgSetLoop(_, _, _, _)
PkgSetLoop(pkgs, importedPkgs, e, pkgSet) ==
    IF pkgs = <<>> THEN pkgSet
    ELSE LET pkg == Head(pkgs)
         IN  PkgSetLoop(Tail(pkgs), importedPkgs, e,
                 IF pkg = <<>> \/ Includes(importedPkgs, pkg)
                 THEN pkgSet
                 ELSE SetAdd(pkgSet, VendorEntry(pkg, e)))

\* The branch with vendor support
VendorPkgs(pkgs, importedPkgs, e) == Sort(PkgSetLoop(pkgs, importedPkgs, e, <<>>))

\* pkgSet.map(...): a PackageInfo for each path
PackageInfo(pkg) ==
    LET index == LastIndexOf(pkg, <<"/">>)
    IN  [name |-> IF index = -1 THEN pkg ELSE SubstringFrom(pkg, index + 1),
         path |-> pkg]

PackageInfos(pkgSet) == [i \in 1..Len(pkgSet) |-> PackageInfo(pkgSet[i])]

\* The value the vendorSupportPromise.then chain computes
ComputePkgs(pkgs, importedPkgs, e) ==
    IF e.vendorSupport THEN VendorPkgs(pkgs, importedPkgs, e)
    ELSE NoVendorPkgs(pkgs, importedPkgs)

\* The cache test that opens listPackages; with the time undefined the
\* difference is NaN, and NaN < pkgsCacheRefreshInterval is false
CacheIsFresh ==
    /\ pkgsCache # Null
    /\ timeForLastPkgsCacheRefresh # Undefined
    /\ now - timeForLastPkgsCacheRefresh.ms < pkgsCacheRefreshInterval

\* lastReturn: how the call settled (from the cache, with a fresh list, rejected),
\* the list returned, the time since pkgsCache was assigned that list, and what
\* gopkgs printed, its lines and the imports the list was computed from
NoReturn ==
    [kind |-> "none", list |-> <<>>, exclude |-> FALSE, age |-> 0,
     stdout |-> <<>>, lines |-> <<>>, imported |-> <<>>]

RemoveAt(seq, i) == SubSeq(seq, 1, i - 1) \o SubSeq(seq, i + 1, Len(seq))

----------------------------------------------------------------------------
(* goSuggest.ts: the document of a completion request *)

\* A document is [lines, line, character]: its lines and the cursor position.
LineText(doc) == doc.lines[doc.line + 1]
LineTillCurrentPosition(doc) == Substring(LineText(doc), 0, doc.character)

\* document.getText(): the lines joined by "\n"
RECURSIVE JoinLines(_)
JoinLines(lines) ==
    IF lines = <<>> THEN <<>>
    ELSE IF Len(lines) = 1 THEN lines[1]
    ELSE lines[1] \o <<"\n">> \o JoinLines(Tail(lines))

GetText(doc) == JoinLines(doc.lines)

\* document.offsetAt(new Position(line, character)); a line past the end is
\* clamped to the end of the document
RECURSIVE OffsetAt(_, _, _)
OffsetAt(lines, line, character) ==
    IF lines = <<>> THEN 0
    ELSE IF line = 0 THEN (IF character < Len(lines[1]) THEN character ELSE Len(lines[1]))
    ELSE Len(lines[1]) + (IF Len(lines) > 1 THEN 1 ELSE 0)
         + OffsetAt(Tail(lines), IF Len(lines) > 1 THEN line - 1 ELSE 0,
                    IF Len(lines) > 1 THEN character ELSE 0)

IsSpace(c) == c \in {" ", "\n", "\t"}
IsDigit(c) == c \in {"0", "1", "2", "3", "4", "5", "6", "7", "8", "9"}
IsWordChar(c) ==
    \/ IsDigit(c)
    \/ c \in {"_", "C", "G", "a", "b", "c", "d", "e", "f", "g", "h", "i", "m", "n",
              "o", "p", "q", "r", "s", "t", "u", "v", "x", "y", "z"}

\* The number of leading characters of s that satisfy \s
RECURSIVE LeadingSpaces(_)
LeadingSpaces(s) ==
    IF s # <<>> /\ IsSpace(Head(s)) THEN 1 + LeadingSpaces(Tail(s)) ELSE 0

\* lineText.match(/^\s*\/\//)
IsLineComment(lineText) ==
    StartsWith(SubstringFrom(lineText, LeadingSpaces(lineText)), <<"/", "/">>)

\* (s.match(/\"/g) || []).length
QuoteCount(s) == Cardinality({i \in 1..Len(s) : s[i] = "\""})

InString(doc) == QuoteCount(Substring(LineText(doc), 0, doc.character)) % 2 = 1

\* document.getWordRangeAtPosition(position): the run of word characters that
\* holds or touches the cursor, as [start, end) columns; Undefined without one
WordRangeAtPosition(doc) ==
    LET text == LineText(doc)
        ch == doc.character
        starts == {a \in 0..ch : \A k \in (a + 1)..ch : IsWordChar(text[k])}
        ends == {b \in ch..Len(text) : \A k \in (ch + 1)..b : IsWordChar(text[k])}
        start == CHOOSE a \in starts : \A a2 \in starts : a <= a2
        end == CHOOSE b \in ends : \A b2 \in ends : b >= b2
    IN  IF start = end THEN Undefined ELSE [start |-> start, end |-> end]

CurrentWord(doc) ==
    LET wordAtPosition == WordRangeAtPosition(doc)
    IN  IF wordAtPosition # Undefined /\ wordAtPosition.start < doc.character
        THEN Substring(LineText(doc), wordAtPosition.start, doc.character)
        ELSE <<>>

\* currentWord.match(/^\d+$/)
IsNumeric(word) == word # <<>> /\ \A i \in 1..Len(word) : IsDigit(word[i])

\* inputText.match(/package\s+(\w+)/)
HasPackageClause(inputText) ==
    \E i \in 0..(Len(inputText) - 9) :
        /\ Substring(inputText, i, i + 7) = <<"p","a","c","k","a","g","e">>
        /\ LET rest == SubstringFrom(inputText, i + 7)
               n == LeadingSpaces(rest)
           IN  n >= 1 /\ n < Len(rest) /\ IsWordChar(rest[n + 1])

\* parseFilePrelude(text).pkg: the line of the package clause, or Null
PreludePkg(lines) ==
    LET hits == {k \in 1..Len(lines) :
                    StartsWith(lines[k], <<"p","a","c","k","a","g","e"," ">>)}
    IN  IF hits = {} THEN Null
        ELSE [start |-> (CHOOSE k \in hits : \A k2 \in hits : k <= k2) - 1]

----------------------------------------------------------------------------
(* goImport.ts: getTextEditForAddImport *)

\* parseFilePrelude(text).imports: a single import per line that opens with
\* import and a quote, a multi import from a line that opens with import ( to
\* the next line that opens with ); k is the line being scanned, open the
\* start line of the multi import being read (or -1)
RECURSIVE PreludeImportsLoop(_, _, _)
PreludeImportsLoop(lines, k, open) ==
    IF k > Len(lines) THEN <<>>
    ELSE IF open >= 0
         THEN IF StartsWith(lines[k], <<")">>)
              THEN <<[kind |-> "multi", start |-> open, end |-> k - 1]>>
                   \o PreludeImportsLoop(lines, k + 1, -1)
              ELSE PreludeImportsLoop(lines, k + 1, open)
         ELSE IF StartsWith(lines[k], <<"i","m","p","o","r","t"," ","(">>)
              THEN PreludeImportsLoop(lines, k + 1, k - 1)
              ELSE IF StartsWith(lines[k], <<"i","m","p","o","r","t"," ","\"">>)
                   THEN <<[kind |-> "single", start |-> k - 1, end |-> k - 1]>>
                        \o PreludeImportsLoop(lines, k + 1, -1)
                   ELSE PreludeImportsLoop(lines, k + 1, -1)

PreludeImports(lines) == PreludeImportsLoop(lines, 1, -1)

\* imports.filter(x => x.kind === 'multi')
RECURSIVE SelectMulti(_)
SelectMulti(imports) ==
    IF imports = <<>> THEN <<>>
    ELSE (IF Head(imports).kind = "multi" THEN <<Head(imports)>> ELSE <<>>)
         \o SelectMulti(Tail(imports))

\* An edit that goes after the last import when that is a single import, also
\* when there is a multi import
GetTextEditForAddImportAfterLast(arg, lines) ==
    LET imports == PreludeImports(lines)
        pkg == PreludePkg(lines)
        multis == SelectMulti(imports)
    IN  IF arg = Undefined THEN Null
        ELSE IF Len(imports) > 0 /\ imports[Len(imports)].kind = "single"
        THEN [line |-> imports[Len(imports)].end + 1, character |-> 0,
              newText |-> <<"i","m","p","o","r","t"," ","\"">> \o arg.str \o <<"\"", "\n">>]
        ELSE IF Len(multis) > 0
        THEN [line |-> multis[Len(multis)].end, character |-> 0,
              newText |-> <<"\t", "\"">> \o arg.str \o <<"\"", "\n">>]
        ELSE IF pkg # Null /\ pkg.start >= 0
        THEN [line |-> pkg.start + 1, character |-> 0,
              newText |-> <<"\n","i","m","p","o","r","t"," ","(","\n","\t","\"">>
                          \o arg.str \o <<"\"","\n",")","\n">>]
        ELSE Null

\* The edit [line, character, newText] that imports arg, or Null; arg is
\* Undefined or [str |-> the import path]
GetTextEditForAddImport(arg, lines) ==
    LET imports == PreludeImports(lines)
        pkg == PreludePkg(lines)
        multis == SelectMulti(imports)
    IN  IF arg = Undefined THEN Null
        ELSE IF Len(multis) > 0
        THEN [line |-> multis[Len(multis)].end, character |-> 0,
              newText |-> <<"\t", "\"">> \o arg.str \o <<"\"", "\n">>]
        ELSE IF Len(imports) > 0
        THEN [line |-> imports[Len(imports)].end + 1, character |-> 0,
              newText |-> <<"i","m","p","o","r","t"," ","\"">> \o arg.str \o <<"\"", "\n">>]
        ELSE IF pkg # Null /\ pkg.start >= 0
        THEN [line |-> pkg.start + 1, character |-> 0,
              newText |-> <<"\n","i","m","p","o","r","t"," ","(","\n","\t","\"">>
                          \o arg.str \o <<"\"","\n",")","\n">>]
        ELSE Null

----------------------------------------------------------------------------
(* goSuggest.ts: the completion items *)

vscodeKindFromGoCodeClass(kind) ==
    CASE kind \in {"const", "package", "type"} -> "Keyword"
      [] kind = "func" -> "Function"
      [] kind = "var" -> "Field"
      [] kind = "import" -> "Module"
      [] OTHER -> "Property"

\* path.basename(p)
PathBasename(p, win32) ==
    LET seps == {i \in 1..Len(p) : IsSep(p[i], win32)}
    IN  IF seps = {} THEN p
        ELSE SubSeq(p, (CHOOSE i \in seps : \A j \in seps : i >= j) + 1, Len(p))

\* The 'Smart Snippet' for the package clause
PackageSnippet(e) ==
    LET defaultPackageName ==
            IF PathBasename(e.fileName, e.win32) = <<"m","a","i","n",".","g","o">>
            THEN <<"m","a","i","n">>
            ELSE PathBasename(PathDirname(e.fileName, e.win32), e.win32)
    IN  [label |-> <<"p","a","c","k","a","g","e"," ">> \o defaultPackageName,
         kind |-> "Snippet", class |-> "", origin |-> "snippet",
         detail |-> <<>>, textEdit |-> Null, additionalTextEdits |-> <<>>]

\* The item for one suggestion of gocode
SuggestItem(suggest, inString, doc) ==
    [label |-> suggest.name,
     kind |-> vscodeKindFromGoCodeClass(suggest.class),
     class |-> suggest.class, origin |-> "gocode",
     detail |-> suggest.type,
     textEdit |->
        IF inString /\ suggest.class = "import"
        THEN [line |-> doc.line,
              start |-> LastIndexOf(Substring(LineText(doc), 0, doc.character),
                                    <<"\"">>) + 1,
              end |-> doc.character,
              newText |-> suggest.name]
        ELSE Null,
     additionalTextEdits |-> <<>>]

\* The loop over results[1]
RECURSIVE SuggestLoop(_, _, _)
SuggestLoop(list, inString, doc) ==
    IF list = <<>> THEN <<>>
    ELSE (IF inString /\ Head(list).class # "import"
          THEN <<>>
          ELSE <<SuggestItem(Head(list), inString, doc)>>)
         \o SuggestLoop(Tail(list), inString, doc)

\* What the callback of execFile(gocode autocomplete) settles runGoCode's
\* promise with. stdout is [ok, value]: whether JSON.parse returns or throws,
\* and the parsed array, as [len, suggestions]: its length and its entry 1.
RunGoCodeResult(err, stdout, inputText, inString, doc, e) ==
    IF err # "none" \/ ~stdout.ok
    THEN [state |-> "rejected", suggestions |-> <<>>]
    ELSE [state |-> "resolved",
          suggestions |->
             (IF HasPackageClause(inputText) THEN <<>> ELSE <<PackageSnippet(e)>>)
             \o (IF stdout.value.len >= 2
                 THEN SuggestLoop(stdout.value.suggestions, inString, doc)
                 ELSE <<>>)]

\* getMatchingPackages(word)
RECURSIVE MatchingLoop(_, _)
MatchingLoop(list, word) ==
    IF list = <<>> THEN <<>>
    ELSE (IF StartsWith(Head(list).name, word)
          THEN <<[label |-> Head(list).name, kind |-> "Keyword", class |-> "",
                  origin |-> "catalog", detail |-> Head(list).path,
                  textEdit |-> Null, additionalTextEdits |-> <<>>]>>
          ELSE <<>>)
         \o MatchingLoop(Tail(list), word)

GetMatchingPackages(word, list) == IF word = <<>> THEN <<>> ELSE MatchingLoop(list, word)

\* The paths of the packages of list whose name is the identifier that ends
\* right before the final dot of line
PackagesNamedBeforeDot(line, list) ==
    LET n == Len(line)
        idents == {a \in 0..(n - 2) :
                     /\ \A k \in (a + 1)..(n - 1) : IsWordChar(line[k])
                     /\ (a = 0 \/ ~IsWordChar(line[a]))}
    IN  IF n = 0 \/ line[n] # "." THEN {}
        ELSE {list[i].path : i \in {i \in 1..Len(list) :
                 \E a \in idents : list[i].name = Substring(line, a, n - 1)}}

\* getPackagePathFromLine(line): the path of the one package named by the
\* word before the final dot; <<>> stands for undefined (both are falsy)
GetPackagePathFromLine(line, list) ==
    LET n == Len(line)
        starts == {a \in 0..(n - 1) : \A k \in (a + 1)..(n - 1) : IsWordChar(line[k])}
        start == CHOOSE a \in starts : \A a2 \in starts : a <= a2
        pkgName == Substring(line, start, n - 1)
        matching == {i \in 1..Len(list) : list[i].name = pkgName}
    IN  IF n = 0 \/ line[n] # "." \/ start = n - 1 THEN <<>>
        ELSE IF Cardinality(matching) = 1
        THEN list[CHOOSE i \in matching : TRUE].path
        ELSE <<>>

----------------------------------------------------------------------------
(* goOutline.ts *)

\* What the callback of execContainer(go-outline) settles documentSymbols'
\* promise with. stdout is [ok, value]: whether JSON.parse returns or throws,
\* and the parsed value, Null or [decls |-> the declarations].
DocumentSymbolsResult(err, stdout) ==
    IF err # "none" THEN [state |-> "resolved", value |-> Null]
    ELSE IF ~stdout.ok THEN [state |-> "rejected", value |-> Null]
    ELSE [state |-> "resolved", value |-> stdout.value]

goKindToCodeKind(type) ==
    CASE type = "package" -> "Package"
      [] type = "import" -> "Namespace"
      [] type = "variable" -> "Variable"
      [] type = "type" -> "Interface"
      [] type = "function" -> "Function"
      [] OTHER -> "undefined"

\* convertToCodeSymbols(document, decls, symbols, containerName): the symbols
\* it pushes, for decls that are an array
RECURSIVE ConvertToCodeSymbols(_, _)
ConvertToCodeSymbols(decls, containerName) ==
    IF decls = <<>> THEN <<>>
    ELSE LET decl == Head(decls)
         IN  <<[label |-> IF decl.receiverType # <<>>
                          THEN <<"(">> \o decl.receiverType \o <<")", ".">> \o decl.label
                          ELSE decl.label,
                kind |-> goKindToCodeKind(decl.type),
                start |-> decl.start, end |-> decl.end - 1,
                containerName |-> containerName]>>
             \o ConvertToCodeSymbols(decl.children, decl.label)
             \o ConvertToCodeSymbols(Tail(decls), containerName)

\* What provideDocumentSymbols' promise settles with, given documentSymbols':
\* decls.forEach throws a TypeError when decls is null
ProvideDocumentSymbolsResult(declsResult) ==
    IF declsResult.state = "rejected" \/ declsResult.value = Null
    THEN [state |-> "rejected", symbols |-> <<>>]
    ELSE [state |-> "resolved",
          symbols |-> ConvertToCodeSymbols(declsResult.value.decls, <<>>)]

\* goImport.ts, getImports: what its promise settles with, given documentSymbols'
RECURSIVE ImportLabels(_)
ImportLabels(children) ==
    IF children = <<>> THEN <<>>
    ELSE (IF Head(children).type = "import"
          THEN <<Substring(Head(children).label, 1, Len(Head(children).label) - 1)>>
          ELSE <<>>)
         \o ImportLabels(Tail(children))

GetImports(declsResult) ==
    IF declsResult.state = "rejected" THEN [ok |-> FALSE, list |-> <<>>]
    ELSE LET symbols == declsResult.value
         IN  IF symbols = Null \/ symbols.decls = <<>> \/ symbols.decls[1].children = <<>>
             THEN [ok |-> TRUE, list |-> <<>>]
             ELSE [ok |-> TRUE, list |-> ImportLabels(symbols.decls[1].children)]

Decl(label, type, children) ==
    [label |-> label, type |-> type, receiverType |-> <<>>, start |-> 0, end |-> 1,
     children |-> children]

\* What go-outline may print
OutlineStdout ==
    { [ok |-> FALSE, value |-> Null],
      [ok |-> TRUE, value |-> Null],
      [ok |-> TRUE, value |-> [decls |-> <<>>]],
      [ok |-> TRUE, value |-> [decls |-> <<Decl(<<"m">>, "package", <<>>)>>]],
      [ok |-> TRUE, value |-> [decls |->
          <<Decl(<<"m">>, "package", <<Decl(<<"\"", "a", "\"">>, "import", <<>>)>>)>>]],
      [ok |-> TRUE, value |-> [decls |->
          <<Decl(<<"m">>, "package",
                 <<Decl(<<"\"", "q", "\"">>, "import", <<>>),
                   Decl(<<"\"", "b", "\"">>, "import", <<>>),
                   [Decl(<<"f">>, "function", <<>>) EXCEPT !.receiverType = <<"t">>]>>)>>]] }

\* What getImports may settle with for the active document
ImportsOutcomes ==
    { GetImports(DocumentSymbolsResult(err, stdout)) :
        err \in ExecErrors, stdout \in OutlineStdout }

----------------------------------------------------------------------------
(* goRename.ts *)

\* A message that leaves stderr out
RenameErrorMessageWithoutStderr(stderr) ==
    <<"C","a","n","n","o","t"," ","r","e","n","a","m","e"," ","d","u","e"," ",
      "t","o"," ","e","r","r","o","r","s">>

\* 'Cannot rename due to errors: ' + stderr
RenameErrorMessage(stderr) ==
    <<"C","a","n","n","o","t"," ","r","e","n","a","m","e"," ","d","u","e"," ",
      "t","o"," ","e","r","r","o","r","s",":"," ">> \o stderr

\* What the callback of execContainer(gorename) does to doRename's promise:
\* resolve and reject are called in the error branch only
DoRenameResult(err, stderr) ==
    IF err = "ENOENT" THEN [state |-> "pending", message |-> <<>>]
    ELSE IF err # "none" THEN [state |-> "rejected", message |-> RenameErrorMessage(stderr)]
    ELSE [state |-> "pending", message |-> <<>>]

\* What gorename may print to stderr
RenameStderr == { <<>>, <<"b","a","d">>, <<"n","o"," ","i","d">> }

----------------------------------------------------------------------------
(* goSuggest.ts: a completion request *)

\* A request is at stage idle, ensure (ensureGoCodeConfigured pending), gocode1
\* or gocode2 (the first or second autocomplete in flight) or done (none of its
\* handlers is left to run). pkg and cfg are the states of pkgPromise and
\* configPromise, outcome and result those of the promise the caller holds.
\* History: invocations, the gocode invocations the request issued, in order;
\* missing, the tools it found missing; configuredBefore, whether the
\* configuration step of a request had completed when this one started;
\* firstPass, the number of suggestions the first pass ended with, catalog
\* matches included (-1 while it has not resolved); known, the paths of the
\* packages of pkgsList that the identifier before the final dot named then.
IdleRequest ==
    [stage |-> "idle", pkg |-> "none", cfg |-> "none",
     outcome |-> "pending", result |-> <<>>,
     doc |-> [lines |-> <<>>, line |-> 0, character |-> 0],
     config |-> [autocompleteUnimportedPackages |-> FALSE, gocodeAutoBuild |-> FALSE],
     inputText |-> <<>>, offset |-> 0, pkgPath |-> <<>>,
     invocations |-> <<>>, missing |-> {}, configuredBefore |-> FALSE,
     firstPass |-> -1, known |-> {}]

SetInvocation(cmd, arg) ==
    [cmd |-> cmd, arg |-> arg, inputText |-> <<>>, offset |-> 0]

AutocompleteInvocation(inputText, offset) ==
    [cmd |-> "autocomplete", arg |-> "", inputText |-> inputText, offset |-> offset]

Issue(rq, invocation) == [rq EXCEPT !.invocations = Append(@, invocation)]

Resolved(rq, items) == [rq EXCEPT !.stage = "done", !.outcome = "resolved", !.result = items]

\* The executor of the promise provideCompletionItemsInternal returns, up to
\* the first runGoCode: the request after it
RequestBody(rq) ==
    LET doc == rq.doc
    IN  IF IsLineComment(LineText(doc)) \/ IsNumeric(CurrentWord(doc))
        THEN Resolved(rq, <<>>)
        ELSE LET inputText == GetText(doc)
                 offset == OffsetAt(doc.lines, doc.line, doc.character)
             IN  Issue([rq EXCEPT !.stage = "gocode1", !.inputText = inputText,
                                  !.offset = offset],
                       AutocompleteInvocation(inputText, offset))

\* Handlers that run the body as soon as pkgPromise has resolved
EnsureSettledOnPackages(rq) ==
    IF rq.stage # "ensure" THEN rq
    ELSE IF rq.pkg = "rejected"
    THEN [rq EXCEPT !.stage = "done", !.outcome = "rejected"]
    ELSE IF rq.pkg = "resolved" THEN RequestBody(rq)
    ELSE rq

\* Promise.all([pkgPromise, configPromise]) and the handlers on it: rejected
\* with the first of the two that rejects, resolved when both are
EnsureSettled(rq) ==
    IF rq.stage # "ensure" THEN rq
    ELSE IF rq.pkg = "rejected"
    THEN [rq EXCEPT !.stage = "done", !.outcome = "rejected"]
    ELSE IF rq.pkg = "resolved" /\ rq.cfg = "resolved" THEN RequestBody(rq)
    ELSE rq

\* An offset that the inserted text does not move
SecondPassOffsetUnmoved(offset, textToAdd) == offset

\* offset += textToAdd.length
SecondPassOffset(offset, textToAdd) == offset + Len(textToAdd)

\* The handler on the first runGoCode's promise, for the suggestions it resolved
\* with; list is this.pkgsList. A throw in it leaves the request pending.
FirstPassThen(rq0, suggestions, list) ==
    LET doc == rq0.doc
        all == suggestions \o GetMatchingPackages(CurrentWord(doc), list)
        lineTillCurrentPosition == LineTillCurrentPosition(doc)
        rq == [rq0 EXCEPT
                 !.firstPass = IF rq0.config.autocompleteUnimportedPackages
                               THEN Len(all) ELSE Len(suggestions),
                 !.known = PackagesNamedBeforeDot(lineTillCurrentPosition, list)]
        endsWithDot == lineTillCurrentPosition # <<>>
                       /\ lineTillCurrentPosition[Len(lineTillCurrentPosition)] = "."
        pkgPath == GetPackagePathFromLine(lineTillCurrentPosition, list)
        pkg == PreludePkg(doc.lines)
        posToAddImport == OffsetAt(doc.lines, pkg.start + 1, 0)
        textToAdd == <<"i","m","p","o","r","t"," ","\"">> \o pkgPath \o <<"\"","\n">>
        inputText == Substring(rq.inputText, 0, posToAddImport) \o textToAdd
                     \o SubstringFrom(rq.inputText, posToAddImport)
        offset == SecondPassOffset(rq.offset, textToAdd)
    IN  IF ~rq.config.autocompleteUnimportedPackages
        THEN Resolved(rq, suggestions)
        ELSE IF Len(all) = 0 /\ endsWithDot /\ pkgPath # <<>>
        THEN IF pkg = Null
             THEN [rq EXCEPT !.stage = "done"]
             ELSE Issue([rq EXCEPT !.stage = "gocode2", !.inputText = inputText,
                                   !.offset = offset, !.pkgPath = pkgPath],
                        AutocompleteInvocation(inputText, offset))
        ELSE Resolved(rq, all)

\* A handler on the second runGoCode's promise that runs gocode once more
SecondPassThenAgain(rq, newsuggestions) ==
    Issue(rq, AutocompleteInvocation(rq.inputText, rq.offset))

\* The handler on the second runGoCode's promise
SecondPassThen(rq, newsuggestions) ==
    LET edit == GetTextEditForAddImport([str |-> rq.pkgPath], rq.doc.lines)
    IN  Resolved(rq, [i \in 1..Len(newsuggestions) |->
                        [newsuggestions[i] EXCEPT !.additionalTextEdits = <<edit>>]])

\* The callback of execFile(gocode autocomplete) with the handlers that run on
\* runGoCode's promise: no handler runs when it rejects
GoCodeSettled(rq, err, stdout, list, e) ==
    LET res == RunGoCodeResult(err, stdout, rq.inputText, InString(rq.doc), rq.doc, e)
        rq1 == [rq EXCEPT !.missing = IF err = "ENOENT" THEN @ \cup {"gocode"} ELSE @]
    IN  IF res.state = "rejected" THEN [rq1 EXCEPT !.stage = "done"]
        ELSE IF rq.stage = "gocode1" THEN FirstPassThen(rq1, res.suggestions, list)
        ELSE SecondPassThen(rq1, res.suggestions)

----------------------------------------------------------------------------
(* goImport.ts: a go.import.add command *)

\* A command is at stage idle, asking (listPackages pending), picking (the
\* quick pick is open on items) or done. History: imp, the import the handler
\* of addImport got; lines, the active document then; edit, what
\* getTextEditForAddImport returned; text, the document after the handler.
IdleAddImport ==
    [stage |-> "idle", items |-> <<>>, imp |-> Undefined, lines |-> <<>>,
     edit |-> Null, text |-> <<>>]

\* askUserForImport: the handler on listPackages' promise opens the quick pick
ShowQuickPick(cmd, packages) ==
    [cmd EXCEPT !.stage = "picking",
                !.items = [i \in 1..Len(packages) |-> packages[i].path]]

\* The handler of addImport on p, for the import p resolved with and the
\* lines of the active document
AddImportThen(cmd, imp, lines) ==
    LET edit == GetTextEditForAddImport(imp, lines)
        text == JoinLines(lines)
        at == OffsetAt(lines, edit.line, edit.character)
    IN  [cmd EXCEPT !.stage = "done", !.imp = imp, !.lines = lines, !.edit = edit,
                    !.text = IF edit = Null THEN text
                             ELSE Substring(text, 0, at) \o edit.newText
                                  \o SubstringFrom(text, at)]

----------------------------------------------------------------------------
(* Actions: goImport.ts, listPackages *)

\* listPackages(excludeImportedPkgs) up to its return: the cached list, or a
\* refresh started; caller is the completion request that calls, minus the
\* go.import.add command that calls, or 0
ListPackages(caller, exclude) ==
    IF CacheIsFresh
    THEN /\ lastReturn' = [kind |-> "cache", list |-> pkgsCache.list, exclude |-> exclude,
                           age |-> now - pkgsCacheStoredAt,
                           stdout |-> pkgsCacheSource.stdout,
                           lines |-> pkgsCacheSource.lines,
                           imported |-> pkgsCacheSource.imported]
         /\ UNCHANGED <<pkgsCache, timeForLastPkgsCacheRefresh, pkgsCacheStoredAt,
                        pkgsCacheSource, calls>>
    ELSE /\ timeForLastPkgsCacheRefresh' = [ms |-> now]
         /\ calls' = Append(calls, [caller |-> caller, exclude |-> exclude,
                                    stage |-> "exec", stdout |-> <<>>,
                                    lines |-> <<>>])
         /\ UNCHANGED <<pkgsCache, pkgsCacheStoredAt, pkgsCacheSource, lastReturn>>

\* A call of listPackages from outside the completion provider
ListPackagesCall ==
    /\ CacheIsFresh \/ Len(calls) < MaxInFlight
    /\ \E exclude \in BOOLEAN : ListPackages(0, exclude)
    /\ UNCHANGED <<now, env, prompts, suggestVars, outline, renames, addImports>>

\* The callback of execFile(gopkgs)
GoPkgsCallback(i, Stdouts) ==
    /\ i \in 1..Len(calls)
    /\ calls[i].stage = "exec"
    /\ \E err \in ExecErrors, stdout \in Stdouts :
         IF err = "ENOENT"
         THEN /\ prompts' = prompts \cup {"gopkgs"}
              /\ calls' = [calls EXCEPT ![i].stage = "rejected"]
         ELSE /\ calls' = [calls EXCEPT ![i].stage = "lines",
                                        ![i].stdout = stdout,
                                        ![i].lines = GoPkgsLines(stdout)]
              /\ UNCHANGED prompts
    /\ UNCHANGED <<now, env, pkgsCache, timeForLastPkgsCacheRefresh, pkgsCacheStoredAt,
                   pkgsCacheSource,
                   lastReturn, suggestVars, outline, renames, addImports>>

\* The handlers on vendorSupportPromise and Promise.all([goPkgsPromise,
\* importsPromise]), for what importsPromise settles with (any of Imports when
\* getImports was called), and the handlers of the caller on the promise
\* listPackages returned
ListPackagesThen(i, Imports) ==
    /\ i \in 1..Len(calls)
    /\ calls[i].stage # "exec"
    /\ \E imp \in (IF calls[i].exclude /\ env.editor
                   THEN Imports
                   ELSE {[ok |-> TRUE, list |-> <<>>]}) :
         LET c == calls[i]
             failed == \/ c.stage = "rejected"
                       \/ ~imp.ok
                       \/ (env.vendorSupport /\ ~env.editor)
             list == PackageInfos(ComputePkgs(c.lines, imp.list, env))
             rq == [reqs[c.caller] EXCEPT
                      !.pkg = IF failed THEN "rejected" ELSE "resolved",
                      !.missing = IF c.stage = "rejected" THEN @ \cup {"gopkgs"} ELSE @]
         IN  /\ calls' = RemoveAt(calls, i)
             /\ lastReturn' = [kind |-> IF failed THEN "rejected" ELSE "fresh",
                               list |-> IF failed THEN <<>> ELSE list,
                               exclude |-> c.exclude, age |-> 0,
                               stdout |-> c.stdout, lines |-> c.lines,
                               imported |-> imp.list]
             /\ IF failed
                THEN UNCHANGED <<pkgsCache, pkgsCacheStoredAt, pkgsCacheSource>>
                ELSE /\ pkgsCache' = [list |-> list]
                     /\ pkgsCacheStoredAt' = now
                     /\ pkgsCacheSource' = [stdout |-> c.stdout, lines |-> c.lines,
                                            imported |-> imp.list]
             /\ IF c.caller <= 0
                THEN UNCHANGED <<pkgsList, reqs>>
                ELSE /\ pkgsList' = IF failed THEN pkgsList ELSE list
                     /\ reqs' = [reqs EXCEPT ![c.caller] = EnsureSettled(rq)]
             /\ IF c.caller >= 0
                THEN UNCHANGED addImports
                ELSE addImports' = [addImports EXCEPT ![-c.caller] =
                                       IF failed THEN [@ EXCEPT !.stage = "done"]
                                       ELSE ShowQuickPick(@, list)]
    /\ UNCHANGED <<now, env, timeForLastPkgsCacheRefresh, prompts,
                   gocodeConfigurationComplete, outline, renames>>

\* A millisecond passes
Tick ==
    /\ now < MaxTime
    /\ now' = now + 1
    /\ UNCHANGED <<env, pkgVars, prompts, suggestVars, outline, renames, addImports>>

----------------------------------------------------------------------------
(* Actions: goImport.ts, addImport *)

\* addImport(arg): with an import, the handler on p runs; without one,
\* askUserForImport calls listPackages(true)
AddImport(n, Args, Docs) ==
    /\ addImports[n].stage = "idle"
    /\ IF n = 1 THEN TRUE ELSE addImports[n - 1].stage # "idle"
    /\ \E arg \in Args, lines \in Docs :
         IF arg # Undefined
         THEN /\ addImports' = [addImports EXCEPT ![n] = AddImportThen(@, arg, lines)]
              /\ UNCHANGED pkgVars
         ELSE /\ ListPackages(-n, TRUE)
              /\ addImports' = [addImports EXCEPT ![n] =
                     IF CacheIsFresh THEN ShowQuickPick(@, pkgsCache.list)
                     ELSE [@ EXCEPT !.stage = "asking"]]
    /\ UNCHANGED <<now, env, prompts, suggestVars, outline, renames>>

\* The quick pick closes, with one of its items or with none, and the handler
\* of addImport on p runs
QuickPick(n, Docs) ==
    /\ addImports[n].stage = "picking"
    /\ \E imp \in {Undefined} \cup {[str |-> addImports[n].items[i]] :
                                        i \in 1..Len(addImports[n].items)},
          lines \in Docs :
         addImports' = [addImports EXCEPT ![n] = AddImportThen(@, imp, lines)]
    /\ UNCHANGED <<now, env, pkgVars, prompts, suggestVars, outline, renames>>

----------------------------------------------------------------------------
(* Actions: goSuggest.ts *)

\* provideCompletionItemsInternal up to its return: ensureGoCodeConfigured
\* calls listPackages(true) and, unless the configuration is complete, issues
\* gocode set propose-builtins. Requests start in the order of their numbers.
StartRequest(r, Docs, Configs) ==
    /\ reqs[r].stage = "idle"
    /\ IF r = 1 THEN TRUE ELSE reqs[r - 1].stage # "idle"
    /\ \E doc \in Docs, config \in Configs :
         LET rq == [reqs[r] EXCEPT
                      !.stage = "ensure", !.doc = doc, !.config = config,
                      !.pkg = IF CacheIsFresh THEN "resolved" ELSE "pending",
                      !.cfg = IF gocodeConfigurationComplete THEN "resolved" ELSE "builtins",
                      !.invocations =
                          IF gocodeConfigurationComplete THEN <<>>
                          ELSE <<SetInvocation("set propose-builtins", "true")>>,
                      !.configuredBefore =
                          \E r2 \in 1..MaxRequests : reqs[r2].cfg = "resolved"]
         IN  /\ ListPackages(r, TRUE)
             /\ pkgsList' = IF CacheIsFresh THEN pkgsCache.list ELSE pkgsList
             /\ reqs' = [reqs EXCEPT ![r] = EnsureSettled(rq)]
    /\ UNCHANGED <<now, env, prompts, gocodeConfigurationComplete, outline, renames, addImports>>

\* The callback of execFile(gocode set propose-builtins true): whatever err is,
\* it issues gocode set autobuild
ConfigBuiltinsCallback(r) ==
    /\ reqs[r].cfg = "builtins"
    /\ reqs' = [reqs EXCEPT ![r] =
           Issue([@ EXCEPT !.cfg = "autobuild"],
                 SetInvocation("set autobuild",
                     IF @.config.gocodeAutoBuild THEN "true" ELSE "false"))]
    /\ UNCHANGED <<now, env, pkgVars, prompts, gocodeConfigurationComplete, pkgsList,
                   outline, renames, addImports>>

\* The callback of execFile(gocode set autobuild): whatever err is, it resolves
\* configPromise; gocodeConfigurationComplete is not assigned
ConfigAutobuildCallback(r) ==
    /\ reqs[r].cfg = "autobuild"
    /\ reqs' = [reqs EXCEPT ![r] = EnsureSettled([@ EXCEPT !.cfg = "resolved"])]
    /\ UNCHANGED <<now, env, pkgVars, prompts, gocodeConfigurationComplete, pkgsList,
                   outline, renames, addImports>>

\* The callback of execFile(gocode autocomplete), first or second pass
GoCodeCallback(r, Stdouts) ==
    /\ reqs[r].stage \in {"gocode1", "gocode2"}
    /\ \E err \in ExecErrors, stdout \in Stdouts :
         /\ reqs' = [reqs EXCEPT ![r] = GoCodeSettled(@, err, stdout, pkgsList, env)]
         /\ prompts' = IF err = "ENOENT" THEN prompts \cup {"gocode"} ELSE prompts
    /\ UNCHANGED <<now, env, pkgVars, gocodeConfigurationComplete, pkgsList,
                   outline, renames, addImports>>

----------------------------------------------------------------------------
(* Actions: goOutline.ts *)

\* A symbol request is at stage idle, exec (go-outline in flight) or done; decls
\* is the state of documentSymbols' promise, symbols that of the promise
\* provideDocumentSymbols returned; err and decoded are history: the error of
\* the tool invocation and whether JSON.parse took its stdout.
IdleSymbolRequest ==
    [stage |-> "idle", err |-> "none", decoded |-> TRUE,
     decls |-> [state |-> "pending", value |-> Null],
     symbols |-> [state |-> "pending", symbols |-> <<>>]]

ProvideDocumentSymbols(o) ==
    /\ outline[o].stage = "idle"
    /\ outline' = [outline EXCEPT ![o].stage = "exec"]
    /\ UNCHANGED <<now, env, pkgVars, prompts, suggestVars, renames, addImports>>

\* The callback of execContainer(go-outline) and the handler of
\* provideDocumentSymbols on documentSymbols' promise
GoOutlineCallback(o) ==
    /\ outline[o].stage = "exec"
    /\ \E err \in ExecErrors, stdout \in OutlineStdout :
         LET decls == DocumentSymbolsResult(err, stdout)
         IN  /\ outline' = [outline EXCEPT ![o] =
                    [stage |-> "done", err |-> err, decoded |-> stdout.ok,
                     decls |-> decls,
                     symbols |-> ProvideDocumentSymbolsResult(decls)]]
             /\ prompts' = IF err = "ENOENT" THEN prompts \cup {"go-outline"} ELSE prompts
    /\ UNCHANGED <<now, env, pkgVars, suggestVars, renames, addImports>>

----------------------------------------------------------------------------
(* Actions: goRename.ts *)

\* A rename request is at stage idle, saving (saveAll pending), exec (gorename
\* in flight) or done; outcome and message are the state of the promise
\* provideRenameEdits returned; err and stderr are history: what the tool
\* invocation called back with.
IdleRename ==
    [stage |-> "idle", outcome |-> "pending", message |-> <<>>,
     err |-> "none", stderr |-> <<>>]

ProvideRenameEdits(n) ==
    /\ renames[n].stage = "idle"
    /\ renames' = [renames EXCEPT ![n].stage = "saving"]
    /\ UNCHANGED <<now, env, pkgVars, prompts, suggestVars, outline, addImports>>

\* The handler on saveAll's promise: doRename issues gorename
DoRename(n) ==
    /\ renames[n].stage = "saving"
    /\ renames' = [renames EXCEPT ![n].stage = "exec"]
    /\ UNCHANGED <<now, env, pkgVars, prompts, suggestVars, outline, addImports>>

\* The callback of execContainer(gorename)
GoRenameCallback(n) ==
    /\ renames[n].stage = "exec"
    /\ \E err \in ExecErrors, stderr \in RenameStderr :
         LET res == DoRenameResult(err, stderr)
         IN  /\ renames' = [renames EXCEPT ![n] =
                    [stage |-> "done", outcome |-> res.state, message |-> res.message,
                     err |-> err, stderr |-> stderr]]
             /\ prompts' = IF err = "ENOENT" THEN prompts \cup {"gorename"} ELSE prompts
    /\ UNCHANGED <<now, env, pkgVars, suggestVars, outline, addImports>>

----------------------------------------------------------------------------
(* Specifications *)

InitState ==
    /\ now = 0
    /\ pkgsCache = Null
    /\ timeForLastPkgsCacheRefresh = Undefined
    /\ pkgsCacheStoredAt = 0
    /\ pkgsCacheSource = [stdout |-> <<>>, lines |-> <<>>, imported |-> <<>>]
    /\ calls = <<>>
    /\ lastReturn = NoReturn
    /\ prompts = {}
    /\ gocodeConfigurationComplete = FALSE
    /\ pkgsList = <<>>
    /\ reqs = [r \in 1..MaxRequests |-> IdleRequest]
    /\ outline = [o \in 1..MaxSymbolRequests |-> IdleSymbolRequest]
    /\ renames = [n \in 1..MaxRenames |-> IdleRename]
    /\ addImports = [n \in 1..MaxAddImports |-> IdleAddImport]

\* The package catalog: listPackages called from outside the provider
InitPkgs == env \in Environments /\ InitState

NextPkgs ==
    \/ ListPackagesCall
    \/ \E i \in 1..MaxInFlight : GoPkgsCallback(i, GoPkgsStdout)
    \/ \E i \in 1..MaxInFlight : ListPackagesThen(i, ImportsOutcomes)
    \/ Tick

SpecPkgs == InitPkgs /\ [][NextPkgs]_vars

\* The package catalog, for the vendor directories and the lines of gopkgs:
\* the file /g/src/x/f.go, /g/src/xy/f.go or /g/src/z/f.go, $GOPATH /g,
\* /opt/go:/g or /g:/opt/go
FileInProject(project) == <<"/","g","/","s","r","c","/">> \o project \o <<"/","f",".","g","o">>

OtherWorkspaceFirst == <<"/","o","p","t","/","g","o",":","/","g">>
OtherWorkspaceLast == <<"/","g",":","/","o","p","t","/","g","o">>

VendorEnvironments ==
    { Environment(TRUE, FileInProject(<<"x">>), OneWorkspace, TRUE),
      Environment(TRUE, FileInProject(<<"x","y">>), OneWorkspace, TRUE),
      Environment(TRUE, FileInProject(<<"z">>), OneWorkspace, TRUE),
      Environment(TRUE, FileInProject(<<"x">>), OtherWorkspaceFirst, TRUE),
      Environment(TRUE, FileInProject(<<"x">>), OtherWorkspaceLast, TRUE),
      Environment(TRUE, FileInProject(<<"x">>), OneWorkspace, FALSE) }

VendorPkgsStdout ==
    { <<"x","/","v","e","n","d","o","r","/","q","\n">>,
      <<"b","\n","\n","a","\n">>,
      <<"b","\n","\n","a">> }

InitVendor == env \in VendorEnvironments /\ InitState

NextVendor ==
    \/ ListPackagesCall
    \/ \E i \in 1..MaxInFlight : GoPkgsCallback(i, VendorPkgsStdout)
    \/ \E i \in 1..MaxInFlight : ListPackagesThen(i, ImportsOutcomes)
    \/ Tick

SpecVendor == InitVendor /\ [][NextVendor]_vars

\* The completion provider
SuggestEnvironments == {Environment(TRUE, FileInWorkspace, OneWorkspace, TRUE)}

SuggestDocuments ==
    { [lines |-> << <<"p","a","c","k","a","g","e"," ","m">>, <<"q",".">> >>,
       line |-> 1, character |-> 2],
      [lines |-> << <<"/","/"," ","c">> >>, line |-> 0, character |-> 4] }

SuggestConfigs ==
    { [autocompleteUnimportedPackages |-> TRUE, gocodeAutoBuild |-> FALSE],
      [autocompleteUnimportedPackages |-> FALSE, gocodeAutoBuild |-> TRUE] }

SuggestPkgsStdout ==
    { <<"b","\n","a","\n">>,
      <<"x","/","v","e","n","d","o","r","/","q","\n","q">> }

\* getImports for the active document: go-outline prints no JSON, or a package
\* that imports "q" and "b"
SuggestImports ==
    { GetImports(DocumentSymbolsResult("none", stdout)) :
        stdout \in {s \in OutlineStdout : ~s.ok \/ (s.value # Null /\ s.value.decls # <<>>
                                                     /\ Len(s.value.decls[1].children) = 3)} }

\* What gocode autocomplete may print
GoCodeStdout ==
    { [ok |-> FALSE, value |-> [len |-> 0, suggestions |-> <<>>]],
      [ok |-> TRUE, value |-> [len |-> 2, suggestions |-> <<>>]],
      [ok |-> TRUE, value |-> [len |-> 2, suggestions |->
          <<[class |-> "func", name |-> <<"F">>, type |-> <<"f","u","n","c","(",")">>],
            [class |-> "import", name |-> <<"q">>, type |-> <<>>]>>]] }

InitSuggest == env \in SuggestEnvironments /\ InitState

NextSuggest ==
    \/ \E r \in 1..MaxRequests : StartRequest(r, SuggestDocuments, SuggestConfigs)
    \/ \E r \in 1..MaxRequests : ConfigBuiltinsCallback(r)
    \/ \E r \in 1..MaxRequests : ConfigAutobuildCallback(r)
    \/ \E r \in 1..MaxRequests : GoCodeCallback(r, GoCodeStdout)
    \/ \E i \in 1..MaxRequests : GoPkgsCallback(i, SuggestPkgsStdout)
    \/ \E i \in 1..MaxRequests : ListPackagesThen(i, SuggestImports)
    \/ Tick

SpecSuggest == InitSuggest /\ [][NextSuggest]_vars

\* One completion request at a time
InitCompletion == env \in SuggestEnvironments /\ InitState

NextCompletion ==
    \/ \E r \in 1..MaxCompletions : StartRequest(r, SuggestDocuments, SuggestConfigs)
    \/ \E r \in 1..MaxCompletions : ConfigBuiltinsCallback(r)
    \/ \E r \in 1..MaxCompletions : ConfigAutobuildCallback(r)
    \/ \E r \in 1..MaxCompletions : GoCodeCallback(r, GoCodeStdout)
    \/ \E i \in 1..MaxCompletions : GoPkgsCallback(i, SuggestPkgsStdout)
    \/ \E i \in 1..MaxCompletions : ListPackagesThen(i, SuggestImports)
    \/ Tick

SpecCompletion == InitCompletion /\ [][NextCompletion]_vars

\* One completion request at a time, when every tool that was started calls
\* back and every handler that is ready runs
CompletionFairness ==
    \A r \in 1..MaxCompletions :
        /\ WF_vars(ConfigBuiltinsCallback(r))
        /\ WF_vars(ConfigAutobuildCallback(r))
        /\ WF_vars(GoCodeCallback(r, GoCodeStdout))
        /\ WF_vars(GoPkgsCallback(r, SuggestPkgsStdout))
        /\ WF_vars(ListPackagesThen(r, SuggestImports))

SpecCompletionFair == InitCompletion /\ [][NextCompletion]_vars /\ CompletionFairness

\* One completion request at a time, for the documents the guards and the
\* string filter tell apart: a number, a comment line, a comment after code, a
\* string that is open, a string that ends in an escaped quote
GuardDocuments ==
    { [lines |-> << <<"p","a","c","k","a","g","e"," ","m">>, <<"1","2">> >>,
       line |-> 1, character |-> 2],
      [lines |-> << <<"/","/"," ","c">> >>, line |-> 0, character |-> 4],
      [lines |-> << <<"a"," ","/","/"," ","c">> >>, line |-> 0, character |-> 6],
      [lines |-> << <<"\"","q">> >>, line |-> 0, character |-> 2],
      [lines |-> << <<"\"","a","\\","\"">> >>, line |-> 0, character |-> 4] }

InitGuards == env \in SuggestEnvironments /\ InitState

NextGuards ==
    \/ \E r \in 1..MaxCompletions : StartRequest(r, GuardDocuments, SuggestConfigs)
    \/ \E r \in 1..MaxCompletions : ConfigBuiltinsCallback(r)
    \/ \E r \in 1..MaxCompletions : ConfigAutobuildCallback(r)
    \/ \E r \in 1..MaxCompletions : GoCodeCallback(r, GoCodeStdout)
    \/ \E i \in 1..MaxCompletions : GoPkgsCallback(i, SuggestPkgsStdout)
    \/ \E i \in 1..MaxCompletions : ListPackagesThen(i, SuggestImports)
    \/ Tick

SpecGuards == InitGuards /\ [][NextGuards]_vars

\* The go.import.add command. The documents: a multi import with a single
\* import after it, two multi imports, single imports, a package clause
\* alone, a comment alone
AddImportDocuments ==
    { << <<"p","a","c","k","a","g","e"," ","m">>,
         <<"i","m","p","o","r","t"," ","(">>, <<"\t","\"","a","\"">>, <<")">>,
         <<"i","m","p","o","r","t"," ","\"","b","\"">> >>,
      << <<"p","a","c","k","a","g","e"," ","m">>,
         <<"i","m","p","o","r","t"," ","(">>, <<")">>,
         <<"i","m","p","o","r","t"," ","(">>, <<"\t","\"","a","\"">>, <<")">> >>,
      << <<"p","a","c","k","a","g","e"," ","m">>,
         <<"i","m","p","o","r","t"," ","\"","a","\"">>,
         <<"i","m","p","o","r","t"," ","\"","b","\"">> >>,
      << <<"p","a","c","k","a","g","e"," ","m">> >>,
      << <<"/","/"," ","c">> >> }

AddImportArgs == {Undefined, [str |-> <<"q">>]}

InitAddImport == env \in SuggestEnvironments /\ InitState

NextAddImport ==
    \/ \E n \in 1..MaxAddImports : AddImport(n, AddImportArgs, AddImportDocuments)
    \/ \E n \in 1..MaxAddImports : QuickPick(n, AddImportDocuments)
    \/ \E i \in 1..MaxAddImports : GoPkgsCallback(i, SuggestPkgsStdout)
    \/ \E i \in 1..MaxAddImports : ListPackagesThen(i, SuggestImports)
    \/ Tick

SpecAddImport == InitAddImport /\ [][NextAddImport]_vars

\* The outline provider
InitOutline == env \in SuggestEnvironments /\ InitState

NextOutline ==
    \/ \E o \in 1..MaxSymbolRequests : ProvideDocumentSymbols(o)
    \/ \E o \in 1..MaxSymbolRequests : GoOutlineCallback(o)

SpecOutline == InitOutline /\ [][NextOutline]_vars

\* The rename provider
InitRename == env \in SuggestEnvironments /\ InitState

NextRename ==
    \/ \E n \in 1..MaxRenames : ProvideRenameEdits(n)
    \/ \E n \in 1..MaxRenames : DoRename(n)
    \/ \E n \in 1..MaxRenames : GoRenameCallback(n)

SpecRename == InitRename /\ [][NextRename]_vars

----------------------------------------------------------------------------
(* The claims *)

\* The invocations cmd of gocode that all requests together have issued
RECURSIVE CountCmd(_, _)
CountCmd(invs, cmd) ==
    IF invs = <<>> THEN 0
    ELSE (IF Head(invs).cmd = cmd THEN 1 ELSE 0) + CountCmd(Tail(invs), cmd)

RECURSIVE IssuedUpTo(_, _)
IssuedUpTo(r, cmd) ==
    IF r = 0 THEN 0 ELSE CountCmd(reqs[r].invocations, cmd) + IssuedUpTo(r - 1, cmd)

Issued(cmd) == IssuedUpTo(MaxRequests, cmd)

Started(r) == reqs[r].stage # "idle"

\* C1: when two completion requests were started before the configuration step
\* of either had finished, one pair of configuration invocations is issued in
\* total: never a second set propose-builtins or set autobuild, and one of each
\* once the configuration steps have completed.
C1_OnePairWhenConcurrent ==
    (\E r1, r2 \in 1..MaxRequests :
        /\ r1 # r2 /\ Started(r1) /\ Started(r2)
        /\ ~reqs[r1].configuredBefore /\ ~reqs[r2].configuredBefore)
    => /\ Issued("set propose-builtins") <= 1
       /\ Issued("set autobuild") <= 1
       /\ (\A r \in 1..MaxRequests : Started(r) => reqs[r].cfg = "resolved")
            => Issued("set propose-builtins") = 1 /\ Issued("set autobuild") = 1

\* C2: a request that starts after the configuration step of a request has
\* completed issues neither set propose-builtins nor set autobuild.
C2_NoReconfiguration ==
    \A r \in 1..MaxRequests :
        reqs[r].configuredBefore
        => /\ CountCmd(reqs[r].invocations, "set propose-builtins") = 0
           /\ CountCmd(reqs[r].invocations, "set autobuild") = 0

\* C3: a completion request that found gocode or gopkgs missing (ENOENT) has
\* prompted for the tool and resolves with an empty result; it does not reject
\* and is not left pending.
C3_MissingToolResolvesEmpty ==
    \A r \in 1..MaxRequests :
        (reqs[r].missing # {} /\ reqs[r].stage = "done")
        => /\ reqs[r].missing \subseteq prompts
           /\ reqs[r].outcome = "resolved"
           /\ reqs[r].result = <<>>

\* C4: documentSymbols resolves to null and does not reject, when the outline
\* tool invocation failed and when its stdout could not be decoded.
C4_DocumentSymbolsAbsentOnFailure ==
    \A o \in 1..MaxSymbolRequests :
        (outline[o].stage = "done" /\ (outline[o].err # "none" \/ ~outline[o].decoded))
        => /\ outline[o].decls.state = "resolved"
           /\ outline[o].decls.value = Null

\* C5: when the outline result is absent (null), provideDocumentSymbols
\* resolves with an empty symbol list.
C5_AbsentOutlineGivesNoSymbols ==
    \A o \in 1..MaxSymbolRequests :
        (/\ outline[o].stage = "done"
         /\ outline[o].decls.state = "resolved"
         /\ outline[o].decls.value = Null)
        => /\ outline[o].symbols.state = "resolved"
           /\ outline[o].symbols.symbols = <<>>

\* C6: once the rename tool invocation has called back, the rename request has
\* an outcome: resolved when the tool succeeded or is missing, rejected when
\* the tool failed.
C6_RenameSurfacesOutcome ==
    \A n \in 1..MaxRenames :
        renames[n].stage = "done"
        => IF renames[n].err \in {"none", "ENOENT"}
           THEN renames[n].outcome = "resolved"
           ELSE renames[n].outcome = "rejected"

Contains(s, sub) == IndexOf(s, sub) # -1

\* C7: when the rename tool invocation reports an error other than a missing
\* binary, the rename request is rejected with a message that contains the
\* captured stderr text.
C7_RenameErrorHasStderr ==
    \A n \in 1..MaxRenames :
        (renames[n].stage = "done" /\ renames[n].err \notin {"none", "ENOENT"})
        => /\ renames[n].outcome = "rejected"
           /\ Contains(renames[n].message, renames[n].stderr)

C7_Witness ==
    \E n \in 1..MaxRenames :
        /\ renames[n].stage = "done"
        /\ renames[n].err = "other"
        /\ renames[n].stderr = <<"n","o"," ","i","d">>
        /\ renames[n].outcome = "rejected"

\* C8: a list that listPackages returns from the cache was assigned to the cache
\* less than pkgsCacheRefreshInterval ms before the call.
C8_CacheServedOnlyWhileYoung ==
    lastReturn.kind = "cache" => lastReturn.age < pkgsCacheRefreshInterval

SortedByPath(list) ==
    \A i, j \in 1..Len(list) : i < j => ~StrLess(list[j].path, list[i].path)

\* C9: every list listPackages returns, computed or from the cache, is in
\* ascending order of package path.
C9_ReturnedListSorted ==
    lastReturn.kind \in {"cache", "fresh"} => SortedByPath(lastReturn.list)

\* gopkgs printed b before a, and listPackages returned a computed list
C9_Witness ==
    /\ lastReturn.kind = "fresh"
    /\ Len(lastReturn.lines) >= 2
    /\ StrLess(lastReturn.lines[2], lastReturn.lines[1])
    /\ Len(lastReturn.list) >= 2

\* C10: no list listPackages returns holds two entries with the same path.
C10_ReturnedListHasNoDuplicates ==
    lastReturn.kind \in {"cache", "fresh"}
    => \A i, j \in 1..Len(lastReturn.list) :
          i # j => lastReturn.list[i].path # lastReturn.list[j].path

\* C11: a list that listPackages(true) computes holds no path that the active
\* document imports, with and without vendor support.
C11_ImportedPackagesExcluded ==
    (lastReturn.kind = "fresh" /\ lastReturn.exclude)
    => \A j \in 1..Len(lastReturn.list) :
          ~Includes(lastReturn.imported, lastReturn.list[j].path)

\* dir is root or lies under it
LivesUnder(dir, root, win32) ==
    dir = root \/ StartsWith(dir, root \o <<PathSep(win32)>>)

Paths(list) == {list[j].path : j \in 1..Len(list)}

\* C12: with vendor support, a line of gopkgs that is not excluded is in the
\* list unmodified, unless it contains /vendor/ and the current file lives
\* under the root project of that vendor directory (the part before /vendor/,
\* under the current workspace).
C12_VendorRewriteOnlyUnderRootProject ==
    (lastReturn.kind = "fresh" /\ env.vendorSupport)
    => \A k \in 1..Len(lastReturn.lines) :
          LET pkg == lastReturn.lines[k]
              vendorIndex == IndexOf(pkg, magicVendorString)
              root == PathJoin(CurrentWorkspace(env), Substring(pkg, 0, vendorIndex),
                               env.win32)
          IN  (/\ pkg # <<>>
               /\ ~Includes(lastReturn.imported, pkg)
               /\ ~(/\ vendorIndex >= 0
                    /\ LivesUnder(CurrentFileDirPath(env), root, env.win32)))
              => pkg \in Paths(lastReturn.list)

\* The workspaces of $GOPATH whose src directory holds the current file
ContainingWorkspaces(e) ==
    LET workspaces == Split(e.gopath, PathDelimiter(e.win32))
    IN  {PathJoin(workspaces[k], <<"s","r","c">>, e.win32) : k \in 1..Len(workspaces)}
        \cap {root \in {PathJoin(workspaces[k], <<"s","r","c">>, e.win32) :
                           k \in 1..Len(workspaces)} :
                 LivesUnder(CurrentFileDirPath(e), root, e.win32)}

\* C13: when workspaces of $GOPATH hold the current file, the workspace that
\* listPackages resolves vendor directories against is the longest of them,
\* whatever the order of the entries.
C13_LongestContainingWorkspace ==
    (lastReturn.kind = "fresh" /\ env.vendorSupport /\ ContainingWorkspaces(env) # {})
    => /\ CurrentWorkspace(env) \in ContainingWorkspaces(env)
       /\ \A root \in ContainingWorkspaces(env) : Len(root) <= Len(CurrentWorkspace(env))

\* C14: the lines are what gopkgs printed, split at the newlines, without the
\* one empty entry a final newline leaves; and every line, an empty one
\* included, is in the list returned (imports not being excluded, and up to
\* the vendor rewriting).
C14_OnlyTrailingEmptyLineDropped ==
    (lastReturn.kind = "fresh" /\ lastReturn.imported = <<>>)
    => /\ \/ JoinLines(lastReturn.lines) = lastReturn.stdout
          \/ JoinLines(lastReturn.lines) \o <<"\n">> = lastReturn.stdout
       /\ \A k \in 1..Len(lastReturn.lines) :
             \/ lastReturn.lines[k] \in Paths(lastReturn.list)
             \/ /\ env.vendorSupport
                /\ VendorEntry(lastReturn.lines[k], env) \in Paths(lastReturn.list)
                /\ lastReturn.lines[k] # <<>>

\* The autocomplete invocations a request has issued, in order
RECURSIVE Autocompletes(_)
Autocompletes(invs) ==
    IF invs = <<>> THEN <<>>
    ELSE (IF Head(invs).cmd = "autocomplete" THEN <<Head(invs)>> ELSE <<>>)
         \o Autocompletes(Tail(invs))

\* C15: when the cursor is taken to be inside a string (an odd number of quote
\* characters before it on the line), every suggestion a completion request
\* resolves with stems from a suggestion of gocode of class import.
C15_OnlyImportsInsideString ==
    \A r \in 1..MaxRequests :
        (reqs[r].stage = "done" /\ reqs[r].outcome = "resolved" /\ InString(reqs[r].doc))
        => \A i \in 1..Len(reqs[r].result) :
              /\ reqs[r].result[i].origin = "gocode"
              /\ reqs[r].result[i].class = "import"

\* C16: when the first pass with the catalog matches ended with no suggestion,
\* the text before the cursor ends with a dot and the identifier before that
\* dot names one known package, the request has issued a second autocomplete,
\* on the text of the first with import "<path>" and a newline inserted at the
\* start of the line after the package clause, and at the offset of the first
\* plus the length of the inserted text.
C16_SecondPassOnImportedCopy ==
    \A r \in 1..MaxRequests :
        LET rq == reqs[r]
            line == LineTillCurrentPosition(rq.doc)
            pkg == PreludePkg(rq.doc.lines)
            path == CHOOSE p \in rq.known : TRUE
            inserted == <<"i","m","p","o","r","t"," ","\"">> \o path \o <<"\"","\n">>
            at == OffsetAt(rq.doc.lines, pkg.start + 1, 0)
            passes == Autocompletes(rq.invocations)
        IN  (/\ rq.firstPass = 0
             /\ line # <<>> /\ line[Len(line)] = "."
             /\ Cardinality(rq.known) = 1
             /\ pkg # Null)
            => /\ Len(passes) = 2
               /\ passes[2].inputText =
                     Substring(passes[1].inputText, 0, at) \o inserted
                     \o SubstringFrom(passes[1].inputText, at)
               /\ passes[2].offset = passes[1].offset + Len(inserted)

\* C16, with the setting it depends on: when autocompleteUnimportedPackages is
\* set, the first pass with the catalog matches ended with no suggestion, the
\* text before the cursor ends with a dot and the identifier before that dot
\* names one known package, the request has issued a second autocomplete, on
\* the text of the first with import "<path>" and a newline inserted at the
\* start of the line after the package clause, and at the offset of the first
\* plus the length of the inserted text.
C16_SecondPassWhenEnabled ==
    \A r \in 1..MaxRequests :
        LET rq == reqs[r]
            line == LineTillCurrentPosition(rq.doc)
            pkg == PreludePkg(rq.doc.lines)
            path == CHOOSE p \in rq.known : TRUE
            inserted == <<"i","m","p","o","r","t"," ","\"">> \o path \o <<"\"","\n">>
            at == OffsetAt(rq.doc.lines, pkg.start + 1, 0)
            passes == Autocompletes(rq.invocations)
        IN  (/\ rq.config.autocompleteUnimportedPackages
             /\ rq.firstPass = 0
             /\ line # <<>> /\ line[Len(line)] = "."
             /\ Cardinality(rq.known) = 1
             /\ pkg # Null)
            => /\ Len(passes) = 2
               /\ passes[2].inputText =
                     Substring(passes[1].inputText, 0, at) \o inserted
                     \o SubstringFrom(passes[1].inputText, at)
               /\ passes[2].offset = passes[1].offset + Len(inserted)

\* The request on q. after package m, with q the one known package of that
\* name, has issued its second autocomplete: offset 12 became 23
C16_Witness ==
    \E r \in 1..MaxRequests :
        /\ reqs[r].config.autocompleteUnimportedPackages
        /\ reqs[r].firstPass = 0
        /\ reqs[r].known = {<<"q">>}
        /\ Len(Autocompletes(reqs[r].invocations)) = 2
        /\ Autocompletes(reqs[r].invocations)[1].offset = 12
        /\ Autocompletes(reqs[r].invocations)[2].offset = 23

\* C17: a completion request issues at most two autocomplete invocations, and
\* a second one only after a first pass that resolved, with no suggestion: the
\* second pass is followed by no further one and a failed invocation by none.
C17_AtMostTwoPasses ==
    \A r \in 1..MaxRequests :
        /\ Len(Autocompletes(reqs[r].invocations)) <= 2
        /\ Len(Autocompletes(reqs[r].invocations)) = 2 => reqs[r].firstPass = 0

\* A request has resolved with the suggestions of its second autocomplete
C17_Witness ==
    \E r \in 1..MaxRequests :
        /\ reqs[r].stage = "done"
        /\ Len(Autocompletes(reqs[r].invocations)) = 2
        /\ reqs[r].outcome = "resolved"
        /\ Len(reqs[r].result) > 0

\* The quote characters of s that no odd run of backslashes escapes
UnescapedQuoteCount(s) ==
    Cardinality({i \in 1..Len(s) :
        /\ s[i] = "\""
        /\ Cardinality({k \in 1..(i - 1) : \A j \in k..(i - 1) : s[j] = "\\"}) % 2 = 0})

\* The cursor is behind a // that is outside a string
InLineComment(doc) ==
    LET line == LineTillCurrentPosition(doc)
    IN  \E i \in 0..(Len(line) - 2) :
           /\ Substring(line, i, i + 2) = <<"/", "/">>
           /\ UnescapedQuoteCount(Substring(line, 0, i)) % 2 = 0

\* C19: a completion request whose cursor is inside a line comment, or whose
\* current word before the cursor is a number, issues no autocomplete
\* invocation and resolves with an empty list (once the package list and the
\* configuration of gocode it waits for are there).
C19_GuardsResolveEmpty ==
    \A r \in 1..MaxRequests :
        (/\ reqs[r].stage # "idle"
         /\ reqs[r].pkg = "resolved" /\ reqs[r].cfg = "resolved"
         /\ InLineComment(reqs[r].doc) \/ IsNumeric(CurrentWord(reqs[r].doc)))
        => /\ Autocompletes(reqs[r].invocations) = <<>>
           /\ reqs[r].stage = "done"
              => reqs[r].outcome = "resolved" /\ reqs[r].result = <<>>

\* C20: the cursor is taken to be inside a string exactly when the number of
\* unescaped quote characters before it on its line is odd.
C20_InStringCountsUnescapedQuotes ==
    \A r \in 1..MaxRequests :
        reqs[r].stage # "idle"
        => (InString(reqs[r].doc)
            <=> UnescapedQuoteCount(LineTillCurrentPosition(reqs[r].doc)) % 2 = 1)

\* C18: the edit of a go.import.add command is, in this order of priority: a
\* tab-indented import line at the closing line of the last multi import, if
\* there is a multi import (also when single imports follow it); else an
\* import "<path>" line after the last single import; else an import block
\* after the package clause; else, and without an import name, none, and the
\* document stays as it is.
C18_InsertionPriority ==
    \A n \in 1..MaxAddImports :
        LET cmd == addImports[n]
            imports == PreludeImports(cmd.lines)
            pkg == PreludePkg(cmd.lines)
            multis == {i \in 1..Len(imports) : imports[i].kind = "multi"}
            lastMulti == CHOOSE i \in multis : \A j \in multis : j <= i
            quoted == <<"\"">> \o cmd.imp.str \o <<"\"","\n">>
            expected ==
                IF cmd.imp = Undefined THEN Null
                ELSE IF multis # {}
                THEN [line |-> imports[lastMulti].end, character |-> 0,
                      newText |-> <<"\t">> \o quoted]
                ELSE IF imports # <<>>
                THEN [line |-> imports[Len(imports)].end + 1, character |-> 0,
                      newText |-> <<"i","m","p","o","r","t"," ">> \o quoted]
                ELSE IF pkg # Null
                THEN [line |-> pkg.start + 1, character |-> 0,
                      newText |-> <<"\n","i","m","p","o","r","t"," ","(","\n","\t">>
                                  \o quoted \o <<")","\n">>]
                ELSE Null
        IN  cmd.stage = "done"
            => /\ cmd.edit = expected
               /\ cmd.edit = Null => cmd.text = JoinLines(cmd.lines)

\* A command has computed the edit for q on the document with a multi import
\* (closing at line 3) and a single import after it (line 4)
C18_Witness ==
    \E n \in 1..MaxAddImports :
        /\ addImports[n].stage = "done"
        /\ Len(addImports[n].lines) = 5
        /\ addImports[n].lines[4] = <<")">>
        /\ addImports[n].lines[5] = <<"i","m","p","o","r","t"," ","\"","b","\"">>
        /\ addImports[n].imp = [str |-> <<"q">>]
        /\ addImports[n].edit = [line |-> 3, character |-> 0,
                                 newText |-> <<"\t","\"","q","\"","\n">>]

----------------------------------------------------------------------------
(* goSuggest.ts: termination and order of a completion request *)

\* C21: every completion request settles, resolved or rejected, once the tools
\* it started have called back, whatever they returned: a request that has
\* started is eventually not pending.
C21_RequestsSettle ==
    \A r \in 1..MaxCompletions :
        (reqs[r].stage # "idle") ~> (reqs[r].outcome # "pending")

\* C22: within a completion request, an autocomplete invocation is issued only
\* after gocode set propose-builtins and then gocode set autobuild of that
\* request, both called back, and after the package list was obtained; no set
\* invocation follows or comes between.
C22_AutocompleteAfterConfiguration ==
    \A r \in 1..MaxRequests :
        LET invs == reqs[r].invocations
        IN  \A k \in 1..Len(invs) :
               IF invs[k].cmd = "autocomplete"
               THEN /\ k >= 3
                    /\ reqs[r].cfg = "resolved"
                    /\ reqs[r].pkg = "resolved"
               ELSE /\ k <= 2
                    /\ invs[k].cmd = IF k = 1 THEN "set propose-builtins"
                                     ELSE "set autobuild"

\* A request whose first autocomplete is in flight, after its two set
\* invocations
C22_Witness ==
    \E r \in 1..MaxRequests :
        /\ reqs[r].stage = "gocode1"
        /\ Len(reqs[r].invocations) = 3
        /\ reqs[r].invocations[3].cmd = "autocomplete"

----------------------------------------------------------------------------
(* goImport.ts: the cache and the two kinds of call *)

\* C23: a list that listPackages(false) returns, computed or from the cache,
\* holds every package gopkgs reported for it, as printed or as rewritten for
\* its vendor directory: none was removed for being imported by the active
\* document, whatever calls came before.
C23_NothingExcludedUnlessAsked ==
    (lastReturn.kind \in {"cache", "fresh"} /\ ~lastReturn.exclude)
    => \A k \in 1..Len(lastReturn.lines) :
          lastReturn.lines[k] # <<>>
          => \/ lastReturn.lines[k] \in Paths(lastReturn.list)
             \/ /\ env.vendorSupport
                /\ VendorEntry(lastReturn.lines[k], env) \in Paths(lastReturn.list)

====
